---- MODULE Spec2Model ----
(***************************************************************************)
(* Model of fxn.rich_text_to_markdown (src/fxn.py), the converter from     *)
(* Notion rich-text spans to Markdown, of the title search and the view    *)
(* state of the page script (src/boardsdb.py) and of the title cache of    *)
(* fxn.resolve_page_titles.                                                *)
(*                                                                         *)
(* A Python str is a sequence of one-character strings.  A Python dict is  *)
(* a function whose DOMAIN is the set of keys present, so d["k"] on a      *)
(* missing key (KeyError) and d.get("k") (None) are told apart.            *)
(***************************************************************************)
EXTENDS Integers, Sequences, FiniteSets, TLC

\* rich_text_to_markdown
VARIABLES rich_text_list, pos, markdown_text, content, pc

\* the search test of the filter loop, for one entry
VARIABLES search_query, body, title_text, in_body, in_title, match_search, search_pc

\* resolve_page_titles and the cache file
VARIABLES cache_file, cache, unknown_ids, idx, retrieve_calls, resolve_calls, resolve_pc

\* the view state of the page script
VARIABLES focused_index, visible_count, total_entries, focused_mode, shuffle_enabled,
          shuffle_seed, current_idx, last_event

renderVars == <<rich_text_list, pos, markdown_text, content, pc>>

searchVars == <<search_query, body, title_text, in_body, in_title, match_search, search_pc>>

cacheVars == <<cache_file, cache, unknown_ids, idx, retrieve_calls, resolve_calls, resolve_pc>>

viewVars == <<focused_index, visible_count, total_entries, focused_mode, shuffle_enabled,
              shuffle_seed, current_idx, last_event>>

vars == <<renderVars, searchVars, cacheVars, viewVars>>

----------------------------------------------------------------------------
(* Bounds of the checked input space.                                      *)

\* longest content / expression of a span in a one-span list
MaxLen == 4
\* longest list of spans
MaxSpans == 3

----------------------------------------------------------------------------
(* Python str and dict primitives used by the function.                    *)

\* characters str.strip() / lstrip() / rstrip() remove when called without arguments
Whitespace == {" ", "\n", "\t", "\r"}

\* s.replace(old, new) for a one-character old
RECURSIVE Replace(_, _, _)
Replace(s, old, new) ==
    IF s = <<>> THEN <<>>
    ELSE (IF Head(s) = old THEN new ELSE <<Head(s)>>) \o Replace(Tail(s), old, new)

\* old in s, for a one-character old
Contains(s, old) == \E k \in DOMAIN s : s[k] = old

\* s.startswith(p)
StartsWith(s, p) == Len(s) >= Len(p) /\ SubSeq(s, 1, Len(p)) = p

\* s.endswith(p)
EndsWith(s, p) == Len(s) >= Len(p) /\ SubSeq(s, Len(s) - Len(p) + 1, Len(s)) = p

\* s.lstrip(): every leading whitespace character goes
RECURSIVE LStrip(_)
LStrip(s) ==
    IF s # <<>> /\ Head(s) \in Whitespace THEN LStrip(Tail(s)) ELSE s

\* s.rstrip(): every trailing whitespace character goes
RECURSIVE RStrip(_)
RStrip(s) ==
    IF s # <<>> /\ s[Len(s)] \in Whitespace THEN RStrip(SubSeq(s, 1, Len(s) - 1)) ELSE s

\* k in d
HasKey(d, k) == k \in DOMAIN d

\* annotations.get(flag): None (falsy) when the key is missing
GetFlag(annotations, flag) ==
    IF HasKey(annotations, flag) THEN annotations[flag] ELSE FALSE

\* the backtick character, which the TLA+ lexer does not take inside a string literal
Backtick == "BACKTICK"

\* the dict {}
EmptyDict == [k \in {} |-> TRUE]

\* text_obj.get("annotations", {})
GetAnnotations(text_obj) ==
    IF HasKey(text_obj, "annotations") THEN text_obj.annotations ELSE EmptyDict

----------------------------------------------------------------------------
(* The body of the loop of rich_text_to_markdown.                          *)

\* content.replace(">", "\>"): "\>" is no escape sequence, Python keeps both characters
EscapeBlockquote(s) == Replace(s, ">", <<"\\", ">">>)

\* content.replace("\n", "  \n")
HardBreaks(s) == Replace(s, "\n", <<" ", " ", "\n">>)

\* CodeContent with the newline conversion run before the code branch instead of after it
CodeContentHardBreaks(s) ==
    IF Contains(s, "\n")
    THEN <<"\n", Backtick, Backtick, Backtick, "\n">> \o HardBreaks(s)
           \o <<"\n", Backtick, Backtick, Backtick, "\n">>
    ELSE <<Backtick>> \o s \o <<Backtick>>

\* the code branch: a fenced block when the content has a newline, else inline code
CodeContent(s) ==
    IF Contains(s, "\n")
    THEN <<"\n", Backtick, Backtick, Backtick, "\n">> \o s
           \o <<"\n", Backtick, Backtick, Backtick, "\n">>
    ELSE <<Backtick>> \o s \o <<Backtick>>

\* the three ifs that move whitespace out of the markers; the content on entry is s
PeelAlways(s) ==
    LET p1 == IF StartsWith(s, <<" ">>) THEN <<" ">> ELSE <<>>
        c1 == IF StartsWith(s, <<" ">>) THEN LStrip(s) ELSE s
        x2 == IF EndsWith(c1, <<" ">>) THEN <<" ">> ELSE <<>>
        c2 == IF EndsWith(c1, <<" ">>) THEN RStrip(c1) ELSE c1
        x3 == IF EndsWith(c2, <<" ", " ", "\n">>) THEN <<" ", " ", "\n">> ELSE x2
        c3 == IF EndsWith(c2, <<" ", " ", "\n">>) THEN SubSeq(c2, 1, Len(c2) - 3) ELSE c2
    IN  [prefix |-> p1, content |-> c3, suffix |-> x3]

\* Peel without the test of the emphasis flags
PeelUnconditional(s, annotations) == PeelAlways(s)

\* prefix, content and suffix after the peeling, which runs only under an emphasis flag
Peel(s, annotations) ==
    IF GetFlag(annotations, "bold") \/ GetFlag(annotations, "italic")
         \/ GetFlag(annotations, "strikethrough")
    THEN PeelAlways(s)
    ELSE [prefix |-> <<>>, content |-> s, suffix |-> <<>>]

\* Wrap with the ifs in the order italic, strikethrough, bold
WrapBoldLast(s, annotations) ==
    LET i == IF GetFlag(annotations, "italic") THEN <<"*">> \o s \o <<"*">> ELSE s
        k == IF GetFlag(annotations, "strikethrough") THEN <<"~", "~">> \o i \o <<"~", "~">> ELSE i
    IN  IF GetFlag(annotations, "bold") THEN <<"*", "*">> \o k \o <<"*", "*">> ELSE k

\* Wrap with the ifs in the order strikethrough, bold, italic
WrapStrikeFirst(s, annotations) ==
    LET k == IF GetFlag(annotations, "strikethrough") THEN <<"~", "~">> \o s \o <<"~", "~">> ELSE s
        b == IF GetFlag(annotations, "bold") THEN <<"*", "*">> \o k \o <<"*", "*">> ELSE k
    IN  IF GetFlag(annotations, "italic") THEN <<"*">> \o b \o <<"*">> ELSE b

\* the three wrapping ifs, run in the order bold, italic, strikethrough
Wrap(s, annotations) ==
    LET b == IF GetFlag(annotations, "bold") THEN <<"*", "*">> \o s \o <<"*", "*">> ELSE s
        i == IF GetFlag(annotations, "italic") THEN <<"*">> \o b \o <<"*">> ELSE b
    IN  IF GetFlag(annotations, "strikethrough") THEN <<"~", "~">> \o i \o <<"~", "~">> ELSE i

\* the else branch: regular text
RegularContent(s, annotations) ==
    LET peeled == Peel(HardBreaks(s), annotations)
    IN  peeled.prefix \o Wrap(peeled.content, annotations) \o peeled.suffix

\* TextContent with the emphasis ifs outside the else, so they also run on code
TextContentEmphasisOnCode(text_obj) ==
    LET escaped == EscapeBlockquote(text_obj.text.content)
        annotations == GetAnnotations(text_obj)
    IN  IF GetFlag(annotations, "code")
        THEN Wrap(CodeContent(escaped), annotations)
        ELSE RegularContent(escaped, annotations)

\* the fragment of a span of type text
TextContent(text_obj) ==
    LET escaped == EscapeBlockquote(text_obj.text.content)
        annotations == GetAnnotations(text_obj)
    IN  IF GetFlag(annotations, "code")
        THEN CodeContent(escaped)
        ELSE RegularContent(escaped, annotations)

\* EquationContent with the expression escaped like text
EquationContentEscaped(text_obj) ==
    <<" ", "$", " ">> \o EscapeBlockquote(text_obj.equation.expression) \o <<" ", "$", " ">>

\* the fragment of a span of type equation
EquationContent(text_obj) ==
    <<" ", "$", " ">> \o text_obj.equation.expression \o <<" ", "$", " ">>

\* RaisesKeyError were the annotations read as text_obj["annotations"]
RaisesOnMissingAnnotations(text_obj) ==
    IF ~HasKey(text_obj, "type") THEN TRUE
    ELSE IF text_obj.type = "text"
         THEN IF ~HasKey(text_obj, "text") THEN TRUE
              ELSE IF ~HasKey(text_obj.text, "content") THEN TRUE
              ELSE ~HasKey(text_obj, "annotations")
    ELSE IF text_obj.type = "equation"
         THEN IF ~HasKey(text_obj, "equation") THEN TRUE
              ELSE ~HasKey(text_obj.equation, "expression")
    ELSE FALSE

\* a subscript of the loop body hits a missing key: text_obj["type"],
\* text_obj["text"]["content"] or text_obj["equation"]["expression"]
RaisesKeyError(text_obj) ==
    IF ~HasKey(text_obj, "type") THEN TRUE
    ELSE IF text_obj.type = "text"
         THEN IF ~HasKey(text_obj, "text") THEN TRUE
              ELSE ~HasKey(text_obj.text, "content")
    ELSE IF text_obj.type = "equation"
         THEN IF ~HasKey(text_obj, "equation") THEN TRUE
              ELSE ~HasKey(text_obj.equation, "expression")
    ELSE FALSE

\* AppendContent with = in place of +=
AssignContent(acc, fragment) == fragment

\* markdown_text += content
AppendContent(acc, fragment) == acc \o fragment

----------------------------------------------------------------------------
(* The inputs.                                                             *)

Alphabet == {" ", "\n", ">", "a"}

Flags == {"bold", "italic", "strikethrough", "code"}

\* strings over Alphabet of length at most n
Strings(n) == UNION {[1..k -> Alphabet] : k \in 0..n}

\* annotation dicts with every flag present
FullAnnotations == [Flags -> BOOLEAN]

\* annotation dicts with any of the flags missing
PartialAnnotations == UNION {[D -> BOOLEAN] : D \in SUBSET Flags}

TextSpan(c, a) == [type |-> "text", text |-> [content |-> c], annotations |-> a]

EquationSpan(e, a) == [type |-> "equation", equation |-> [expression |-> e], annotations |-> a]

\* spans as the Notion API delivers them
WellFormedSpans ==
    {TextSpan(c, a) : c \in Strings(MaxLen), a \in FullAnnotations}
      \cup {EquationSpan(e, a) : e \in Strings(MaxLen),
                                 a \in {[f \in Flags |-> FALSE], [f \in Flags |-> TRUE]}}

\* spans with a field missing, or of a kind the function does not know
OddSpans ==
    {TextSpan(c, a) : c \in Strings(1), a \in PartialAnnotations}
      \cup {[type |-> "text", text |-> [content |-> c]] : c \in Strings(1)}
      \cup {[type |-> "equation", equation |-> [expression |-> e]] : e \in Strings(1)}
      \cup {[type |-> "mention"], [type |-> "mention", annotations |-> [f \in Flags |-> TRUE]],
            EmptyDict, [annotations |-> EmptyDict],
            [type |-> "text"], [type |-> "text", text |-> EmptyDict],
            [type |-> "text", equation |-> [expression |-> <<"a">>]],
            [type |-> "equation"], [type |-> "equation", equation |-> EmptyDict],
            [type |-> "equation", text |-> [content |-> <<"a">>]]}

\* the spans of the lists of two or more spans
ListSpans ==
    {TextSpan(c, [f \in Flags |-> f \in on]) :
        c \in {<<"a">>, <<" ", "a">>, <<">", "\n">>},
        on \in {{}, {"bold"}, {"code"}}}
      \cup {EquationSpan(<<"a">>, [f \in Flags |-> FALSE]),
            [type |-> "text", text |-> [content |-> <<"a">>]],
            [type |-> "mention"],
            [type |-> "text"]}

RichTextLists ==
    {<<>>} \cup {<<s>> : s \in WellFormedSpans \cup OddSpans}
           \cup UNION {[1..n -> ListSpans] : n \in 2..MaxSpans}

----------------------------------------------------------------------------
(* rich_text_to_markdown as a state machine: one step per loop iteration.  *)

\* no search under way
SearchIdle ==
    /\ search_query = <<>>
    /\ body = <<>>
    /\ title_text = <<>>
    /\ in_body = FALSE
    /\ in_title = FALSE
    /\ match_search = TRUE
    /\ search_pc = "idle"

\* the page identifiers that can be asked for
PageIds == {"p1", "p2"}

\* no cache file, no call of resolve_page_titles yet
CacheIdle ==
    /\ cache_file = EmptyDict
    /\ cache = EmptyDict
    /\ unknown_ids = <<>>
    /\ idx = 1
    /\ retrieve_calls = [p \in PageIds |-> 0]
    /\ resolve_calls = 0
    /\ resolve_pc = "idle"

\* the entries shown at first and added by each Load More
PageSize == 50

\* the session state before the first run of the page script
ViewIdle ==
    /\ focused_index = 0
    /\ visible_count = PageSize
    /\ total_entries = 0
    /\ focused_mode = FALSE
    /\ shuffle_enabled = FALSE
    /\ shuffle_seed = 0
    /\ current_idx = -1
    /\ last_event = "none"

\* markdown_text = "" before the loop
RenderStart ==
    /\ pos = 1
    /\ markdown_text = <<>>
    /\ content = <<>>
    /\ pc = "loop"

\* rich_text_to_markdown is not running
RenderIdle ==
    /\ rich_text_list = <<>>
    /\ pos = 1
    /\ markdown_text = <<>>
    /\ content = <<>>
    /\ pc = "idle"

Init ==
    /\ rich_text_list \in RichTextLists
    /\ RenderStart
    /\ SearchIdle
    /\ CacheIdle
    /\ ViewIdle

InLoop == pc = "loop" /\ pos <= Len(rich_text_list)

\* an iteration over a span of type text
HandleText ==
    /\ InLoop
    /\ ~RaisesKeyError(rich_text_list[pos])
    /\ rich_text_list[pos].type = "text"
    /\ content' = TextContent(rich_text_list[pos])
    /\ markdown_text' = AppendContent(markdown_text, content')
    /\ pos' = pos + 1
    /\ UNCHANGED <<rich_text_list, pc>>
    /\ UNCHANGED <<searchVars, cacheVars, viewVars>>

\* an iteration over a span of type equation
HandleEquation ==
    /\ InLoop
    /\ ~RaisesKeyError(rich_text_list[pos])
    /\ rich_text_list[pos].type = "equation"
    /\ content' = EquationContent(rich_text_list[pos])
    /\ markdown_text' = AppendContent(markdown_text, content')
    /\ pos' = pos + 1
    /\ UNCHANGED <<rich_text_list, pc>>
    /\ UNCHANGED <<searchVars, cacheVars, viewVars>>

\* an iteration over a span of any other type: content stays ""
HandleOther ==
    /\ InLoop
    /\ ~RaisesKeyError(rich_text_list[pos])
    /\ rich_text_list[pos].type \notin {"text", "equation"}
    /\ content' = <<>>
    /\ markdown_text' = AppendContent(markdown_text, content')
    /\ pos' = pos + 1
    /\ UNCHANGED <<rich_text_list, pc>>
    /\ UNCHANGED <<searchVars, cacheVars, viewVars>>

\* an iteration that leaves the function with a KeyError, after content = ""
RaiseKeyError ==
    /\ InLoop
    /\ RaisesKeyError(rich_text_list[pos])
    /\ content' = <<>>
    /\ pc' = "raised"
    /\ UNCHANGED <<rich_text_list, pos, markdown_text>>
    /\ UNCHANGED <<searchVars, cacheVars, viewVars>>

\* return markdown_text
Return ==
    /\ pc = "loop"
    /\ pos > Len(rich_text_list)
    /\ pc' = "returned"
    /\ UNCHANGED <<rich_text_list, pos, markdown_text, content>>
    /\ UNCHANGED <<searchVars, cacheVars, viewVars>>

Next == HandleText \/ HandleEquation \/ HandleOther \/ RaiseKeyError \/ Return

Spec == Init /\ [][Next]_vars

----------------------------------------------------------------------------
(* Vocabulary of the properties.  After an iteration that did not raise,   *)
(* content is the fragment of the span rich_text_list[pos - 1].            *)

TypeOK ==
    /\ pos \in 1..(Len(rich_text_list) + 1)
    /\ pc \in {"idle", "loop", "returned", "raised"}

Processed == pos > 1 /\ pc # "raised"

LastObj == rich_text_list[pos - 1]

ProcessedText == Processed /\ LastObj.type = "text"

ProcessedEquation == Processed /\ LastObj.type = "equation"

RawContent == LastObj.text.content

FlagSet(flag) ==
    /\ HasKey(LastObj, "annotations")
    /\ HasKey(LastObj.annotations, flag)
    /\ LastObj.annotations[flag]

Emphasised == FlagSet("bold") \/ FlagSet("italic") \/ FlagSet("strikethrough")

\* the content with > written \> and, where breaks is TRUE, each newline written
\* as two spaces and the newline; every other character as it is
RECURSIVE Converted(_, _)
Converted(s, breaks) ==
    IF s = <<>> THEN <<>>
    ELSE LET c == s[Len(s)]
         IN  Converted(SubSeq(s, 1, Len(s) - 1), breaks)
               \o (IF c = ">" THEN <<"\\", ">">>
                   ELSE IF c = "\n" /\ breaks THEN <<" ", " ", "\n">>
                   ELSE <<c>>)

AllWhitespace(s) == \A k \in DOMAIN s : s[k] \in Whitespace

IsMarker(c) == c \in {"*", "~"}

\* the positions of the first and of the last marker character of a fragment
FirstMarker(s) == CHOOSE k \in DOMAIN s : IsMarker(s[k]) /\ \A j \in 1..(k - 1) : ~IsMarker(s[j])

LastMarker(s) == CHOOSE k \in DOMAIN s : IsMarker(s[k]) /\ \A j \in (k + 1)..Len(s) : ~IsMarker(s[j])

BoldMark == IF FlagSet("bold") THEN <<"*", "*">> ELSE <<>>

ItalicMark == IF FlagSet("italic") THEN <<"*">> ELSE <<>>

StrikeMark == IF FlagSet("strikethrough") THEN <<"~", "~">> ELSE <<>>

\* the opening and closing markers with bold innermost and strikethrough outermost
OpenMarkers == StrikeMark \o ItalicMark \o BoldMark

CloseMarkers == BoldMark \o ItalicMark \o StrikeMark

Fence == <<"\n", Backtick, Backtick, Backtick, "\n">>

----------------------------------------------------------------------------
(* C1 - C2: whitespace around the emphasis markers.                        *)

\* C1: for a text span that is not code and has bold, italic or strikethrough set,
\* the fragment is prefix + markers + trimmed content + markers + suffix, where
\* prefix and suffix are whitespace and prefix + trimmed content + suffix is exactly
\* the content after the > escaping and the newline conversion: no whitespace
\* character is dropped or added.
C1_PeeledWhitespacePreserved ==
    (ProcessedText /\ ~FlagSet("code") /\ Emphasised) =>
        LET e == Converted(RawContent, TRUE)
        IN  \E p \in 0..Len(e) : \E q \in p..Len(e) :
                /\ AllWhitespace(SubSeq(e, 1, p))
                /\ AllWhitespace(SubSeq(e, q + 1, Len(e)))
                /\ content = SubSeq(e, 1, p) \o OpenMarkers \o SubSeq(e, p + 1, q)
                               \o CloseMarkers \o SubSeq(e, q + 1, Len(e))

\* C2: for a text span that is not code, has bold, italic or strikethrough set and
\* holds a non-whitespace character, the character right after the opening markers
\* and the character right before the closing markers is not a space.
C2_MarkersAgainstNonSpace ==
    (ProcessedText /\ ~FlagSet("code") /\ Emphasised /\ ~AllWhitespace(RawContent)) =>
        /\ content[FirstMarker(content) + Len(OpenMarkers)] # " "
        /\ content[LastMarker(content) - Len(CloseMarkers)] # " "

----------------------------------------------------------------------------
(* C3 - C4: code spans.                                                    *)

\* C3 as claimed: a text span with code set and no newline in its content renders
\* as backtick, the content unchanged, backtick, whatever the content holds.
C3_InlineCodeIsRawContent ==
    (ProcessedText /\ FlagSet("code") /\ ~Contains(RawContent, "\n")) =>
        content = <<Backtick>> \o RawContent \o <<Backtick>>

\* C3 as amended: a text span with code set and no newline in its content renders
\* as backtick, the content with every > written \>, backtick, whatever the values
\* of bold, italic and strikethrough.
C3_InlineCodeIsEscapedContent ==
    (ProcessedText /\ FlagSet("code") /\ ~Contains(RawContent, "\n")) =>
        content = <<Backtick>> \o Converted(RawContent, FALSE) \o <<Backtick>>

C3_Witness ==
    /\ ProcessedText
    /\ FlagSet("code") /\ FlagSet("bold") /\ FlagSet("italic") /\ FlagSet("strikethrough")
    /\ RawContent = <<" ", ">", "a">>
    /\ content = <<Backtick, " ", "\\", ">", "a", Backtick>>

\* C4 as claimed: a text span with code set and a newline in its content renders as
\* newline, three backticks, newline, the content unchanged, newline, three
\* backticks, newline.
C4_FencedBlockIsRawContent ==
    (ProcessedText /\ FlagSet("code") /\ Contains(RawContent, "\n")) =>
        content = Fence \o RawContent \o Fence

\* C4 as amended: a text span with code set and a newline in its content renders as
\* newline, three backticks, newline, the content with every > written \>, newline,
\* three backticks, newline; the newlines of the content stay raw and no emphasis
\* marker is emitted.
C4_FencedBlockIsEscapedContent ==
    (ProcessedText /\ FlagSet("code") /\ Contains(RawContent, "\n")) =>
        content = Fence \o Converted(RawContent, FALSE) \o Fence

C4_Witness ==
    /\ ProcessedText
    /\ FlagSet("code") /\ FlagSet("bold") /\ FlagSet("italic") /\ FlagSet("strikethrough")
    /\ RawContent = <<">", "\n", "a">>
    /\ content = Fence \o <<"\\", ">", "\n", "a">> \o Fence

----------------------------------------------------------------------------
(* C5 - C6: the nesting of the emphasis markers.                           *)

\* the part of a fragment from its first to its last marker character
Wrapped(s) == SubSeq(s, FirstMarker(s), LastMarker(s))

\* C5: for a text span that is not code, the wraps are applied in the sequence bold,
\* italic, strikethrough, each outside the previous result: the markers of the
\* fragment are one opening run ~~ * ** and one closing run ** * ~~ (each part
\* present when its flag is set) around marker-free text, so that bold + italic on x
\* gives ***x*** and bold + italic + strikethrough gives ~~***x***~~.
C5_WrapsBoldItalicStrike ==
    (ProcessedText /\ ~FlagSet("code") /\ Emphasised) =>
        LET w == Wrapped(content)
            n == Len(OpenMarkers)
        IN  /\ Len(w) >= 2 * n
            /\ SubSeq(w, 1, n) = OpenMarkers
            /\ SubSeq(w, Len(w) - n + 1, Len(w)) = CloseMarkers
            /\ \A k \in (n + 1)..(Len(w) - n) : ~IsMarker(w[k])
            /\ \A k \in DOMAIN content :
                   IsMarker(content[k]) =>
                       k \in FirstMarker(content)..LastMarker(content)

C5_Witness ==
    /\ ProcessedText /\ ~FlagSet("code")
    /\ FlagSet("bold") /\ FlagSet("italic") /\ FlagSet("strikethrough")
    /\ RawContent = <<"a">>
    /\ content = <<"~", "~", "*", "*", "*", "a", "*", "*", "*", "~", "~">>

\* C6 as claimed: for a text span that is not code with bold set together with italic
\* or strikethrough, the bold markers ** are the outermost markers of the wrapped
\* content, then italic, then strikethrough innermost.
C6_BoldOutermost ==
    (ProcessedText /\ ~FlagSet("code") /\ FlagSet("bold")
       /\ (FlagSet("italic") \/ FlagSet("strikethrough"))) =>
        LET w == Wrapped(content)
            n == Len(OpenMarkers)
        IN  /\ SubSeq(w, 1, n) = BoldMark \o ItalicMark \o StrikeMark
            /\ SubSeq(w, Len(w) - n + 1, Len(w)) = StrikeMark \o ItalicMark \o BoldMark

\* C6 as amended: for a text span that is not code with bold set together with italic
\* or strikethrough, the bold markers ** are the innermost markers, directly against
\* the trimmed content; the italic marker is around them and the strikethrough
\* markers ~~ are the outermost.
C6_BoldInnermost ==
    (ProcessedText /\ ~FlagSet("code") /\ FlagSet("bold")
       /\ (FlagSet("italic") \/ FlagSet("strikethrough"))) =>
        LET w == Wrapped(content)
            n == Len(OpenMarkers)
        IN  /\ SubSeq(w, n - 1, n) = <<"*", "*">>
            /\ SubSeq(w, Len(w) - n + 1, Len(w) - n + 2) = <<"*", "*">>
            /\ \A k \in (n + 1)..(Len(w) - n) : ~IsMarker(w[k])
            /\ FlagSet("italic") =>
                   w[n - 2] = "*" /\ w[Len(w) - n + 3] = "*"
            /\ FlagSet("strikethrough") =>
                   /\ SubSeq(w, 1, 2) = <<"~", "~">>
                   /\ SubSeq(w, Len(w) - 1, Len(w)) = <<"~", "~">>

C6_Witness ==
    /\ ProcessedText /\ ~FlagSet("code")
    /\ FlagSet("bold") /\ ~FlagSet("italic") /\ FlagSet("strikethrough")
    /\ RawContent = <<" ", "a">>
    /\ content = <<" ", "~", "~", "*", "*", "a", "*", "*", "~", "~">>

----------------------------------------------------------------------------
(* C7 - C8: equations and plain text.                                      *)

\* C7: the fragment of an equation span is space, $, space, the expression, space,
\* $, space, with the expression copied as it is: no > escaping, no newline
\* conversion and no marker, whatever annotations the span carries.
C7_EquationVerbatim ==
    ProcessedEquation =>
        content = <<" ", "$", " ">> \o LastObj.equation.expression \o <<" ", "$", " ">>

C7_Witness ==
    /\ ProcessedEquation
    /\ HasKey(LastObj, "annotations")
    /\ \A f \in Flags : FlagSet(f)
    /\ LastObj.equation.expression = <<" ", ">", "\n">>
    /\ content = <<" ", "$", " ", " ", ">", "\n", " ", "$", " ">>

----------------------------------------------------------------------------
(* C9: missing fields.                                                     *)

\* the span has the fields the loop body subscripts
HasRequiredFields(text_obj) ==
    /\ HasKey(text_obj, "type")
    /\ text_obj.type = "text" =>
           HasKey(text_obj, "text") /\ HasKey(text_obj.text, "content")
    /\ text_obj.type = "equation" =>
           HasKey(text_obj, "equation") /\ HasKey(text_obj.equation, "expression")

\* the text span with its annotations written out, each missing flag as FALSE
WithAllFlags(text_obj) ==
    [type |-> "text", text |-> text_obj.text,
     annotations |-> [f \in Flags |->
                         /\ HasKey(text_obj, "annotations")
                         /\ HasKey(text_obj.annotations, f)
                         /\ text_obj.annotations[f]]]

\* C9 as claimed: rich_text_to_markdown never raises, whatever fields the spans lack.
C9_NeverRaises == pc # "raised"

\* C9 as amended: rich_text_to_markdown returns a string for every span sequence in
\* which each span has a type and, when the type is text, text.content and, when it
\* is equation, equation.expression; there, missing annotations and missing flags
\* count as false and a span of an unrecognized type contributes the empty string.
\* At the first span that lacks one of those fields it raises KeyError.
C9_RaisesOnlyOnMissingRequiredField ==
    /\ \A k \in 1..(pos - 1) : HasRequiredFields(rich_text_list[k])
    /\ pc = "raised" => ~HasRequiredFields(rich_text_list[pos])
    /\ pc = "returned" => pos = Len(rich_text_list) + 1
    /\ (Processed /\ LastObj.type \notin {"text", "equation"}) => content = <<>>
    /\ ProcessedText => content = TextContent(WithAllFlags(LastObj))

C9_Witness ==
    /\ rich_text_list = <<[type |-> "text", text |-> [content |-> <<"a">>]], [type |-> "text"]>>
    /\ pc = "raised"
    /\ pos = 2
    /\ markdown_text = <<"a">>

----------------------------------------------------------------------------
(* C10: the result is the concatenation of the fragments.                  *)

\* the fragment of one span, taken alone
Fragment(text_obj) ==
    IF text_obj.type = "text" THEN TextContent(text_obj)
    ELSE IF text_obj.type = "equation" THEN EquationContent(text_obj)
    ELSE <<>>

\* the fragments of the spans of a list, concatenated from the right
RECURSIVE Rendered(_)
Rendered(list) ==
    IF list = <<>> THEN <<>> ELSE Fragment(Head(list)) \o Rendered(Tail(list))

\* C10: the text accumulated over the spans processed so far, and so the result, is
\* for every split of those spans in s1 and s2 the rendering of s1 followed by the
\* rendering of s2, each span contributing the fragment it has when rendered alone;
\* over no span it is the empty string.
C10_ConcatenationOfFragments ==
    LET done == SubSeq(rich_text_list, 1, pos - 1)
    IN  /\ \A k \in 0..Len(done) :
               markdown_text = Rendered(SubSeq(done, 1, k))
                                 \o Rendered(SubSeq(done, k + 1, Len(done)))
        /\ done = <<>> => markdown_text = <<>>
        /\ pc = "returned" => done = rich_text_list

C10_Witness ==
    /\ pc = "returned"
    /\ Len(rich_text_list) = MaxSpans
    /\ rich_text_list[1] = TextSpan(<<" ", "a">>, [f \in Flags |-> f = "bold"])
    /\ rich_text_list[Len(rich_text_list)] = EquationSpan(<<"a">>, [f \in Flags |-> FALSE])
    /\ SubSeq(markdown_text, 1, 6) = <<" ", "*", "*", "a", "*", "*">>
    /\ SubSeq(markdown_text, Len(markdown_text) - 6, Len(markdown_text))
         = <<" ", "$", " ", "a", " ", "$", " ">>

----------------------------------------------------------------------------
(* The search test of the filter loop of the page script, for one entry:   *)
(* the entry's title is rendered by rich_text_to_markdown and the query is *)
(* looked up in the lowered result.                                        *)

\* longest title, in spans
MaxTitleSpans == 2
\* longest search query
MaxQuery == 2

\* s.lower(), over the letters of the checked inputs
Lower(s) == [k \in DOMAIN s |-> IF s[k] = "A" THEN "a" ELSE s[k]]

\* q in s, for strings
IsSubstring(q, s) ==
    \E k \in 0..(Len(s) - Len(q)) : SubSeq(s, k + 1, k + Len(q)) = q

\* the spans of the titles
TitleSpans ==
    {TextSpan(c, [f \in Flags |-> f \in on]) :
        c \in {<<"a">>, <<"A", "a">>, <<">">>, <<"a", " ">>},
        on \in {{}, {"bold"}, {"code"}}}
      \cup {EquationSpan(<<"a">>, [f \in Flags |-> FALSE]),
            [type |-> "mention"],
            [type |-> "text"]}

TitleLists == UNION {[1..n -> TitleSpans] : n \in 0..MaxTitleSpans}

\* what the user can type in the search box
Queries == UNION {[1..n -> {"a", "A", "*", ">"}] : n \in 0..MaxQuery}

\* item["Body"]: the rendered body, with None written as the empty string
Bodies == {<<>>, <<"a">>, <<"A", "*">>}

InitSearch ==
    /\ rich_text_list \in TitleLists
    /\ pos = 1
    /\ markdown_text = <<>>
    /\ content = <<>>
    /\ pc = "idle"
    /\ search_query \in Queries
    /\ body \in Bodies
    /\ title_text = <<>>
    /\ in_body = FALSE
    /\ in_title = FALSE
    /\ match_search = TRUE
    /\ search_pc = "start"
    /\ CacheIdle
    /\ ViewIdle

\* if search_query: is false, match_search stays True
SkipSearch ==
    /\ search_pc = "start"
    /\ search_query = <<>>
    /\ search_pc' = "done"
    /\ UNCHANGED <<search_query, body, title_text, in_body, in_title, match_search>>
    /\ UNCHANGED <<renderVars, cacheVars, viewVars>>

\* the query is matched against the body, then the title property is rendered
CallRenderer ==
    /\ search_pc = "start"
    /\ search_query # <<>>
    /\ in_body' = IsSubstring(Lower(search_query), Lower(body))
    /\ pc' = "loop"
    /\ search_pc' = "rendering"
    /\ UNCHANGED <<search_query, body, title_text, in_title, match_search>>
    /\ UNCHANGED <<rich_text_list, pos, markdown_text, content>>
    /\ UNCHANGED <<cacheVars, viewVars>>

\* title_text is the lowered result; match_search = in_body or in_title
MatchSearch ==
    /\ search_pc = "rendering"
    /\ pc = "returned"
    /\ title_text' = Lower(markdown_text)
    /\ in_title' = IsSubstring(Lower(search_query), title_text')
    /\ match_search' = (in_body \/ in_title')
    /\ search_pc' = "done"
    /\ UNCHANGED <<search_query, body, in_body>>
    /\ UNCHANGED <<renderVars, cacheVars, viewVars>>

NextSearch ==
    \/ SkipSearch \/ CallRenderer \/ MatchSearch
    \/ HandleText \/ HandleEquation \/ HandleOther \/ RaiseKeyError \/ Return

SpecSearch == InitSearch /\ [][NextSearch]_vars

----------------------------------------------------------------------------
(* C11: the text the title search runs on.                                 *)

\* the literal content of the spans of type text, concatenated
RECURSIVE PlainText(_)
PlainText(list) ==
    IF list = <<>> THEN <<>>
    ELSE (IF Head(list).type = "text" THEN Head(list).text.content ELSE <<>>)
           \o PlainText(Tail(list))

\* C11: the text an entry's title is matched against is its plain text, the literal
\* content of its text spans with no marker, escape or equation wrapper of the
\* renderer, so that a query matches the title iff it is, case-insensitively, a
\* substring of the source text.
C11_TitleMatchedOnPlainText ==
    (search_pc = "done" /\ search_query # <<>>) =>
        /\ title_text = Lower(PlainText(rich_text_list))
        /\ in_title <=> IsSubstring(Lower(search_query), Lower(PlainText(rich_text_list)))

----------------------------------------------------------------------------
(* resolve_page_titles with load_cache and save_cache.  cache_file is the  *)
(* dict stored in notion_cache.json, the empty dict while there is no file;*)
(* retrieve_calls counts the calls of notion.pages.retrieve per identifier.*)

\* longest ids_to_resolve
MaxIds == 2
\* number of calls of resolve_page_titles
MaxCalls == 2

\* ids_to_resolve, as the list the function iterates over
IdLists == UNION {[1..n -> PageIds] : n \in 0..MaxIds}

\* the titles a retrieved page can give; a failed retrieval is cached as "Unknown Ref"
Titles == {"Title", "Untitled Page", "Unknown Ref"}

\* d[k] = v
DictSet(d, k, v) == [x \in (DOMAIN d) \cup {k} |-> IF x = k THEN v ELSE d[x]]

\* [uid for uid in ids if uid not in loaded]
UnknownIds(ids, loaded) ==
    LET NotCached(uid) == ~HasKey(loaded, uid)
    IN  SelectSeq(ids, NotCached)

\* what load_cache returns: the dict of the file, or {} when reading it fails
LoadCache == {cache_file, EmptyDict}

InitCache ==
    /\ RenderIdle
    /\ SearchIdle
    /\ CacheIdle
    /\ ViewIdle

\* if not ids_to_resolve: return {}
ResolveNothing ==
    /\ resolve_pc = "idle"
    /\ resolve_calls < MaxCalls
    /\ resolve_calls' = resolve_calls + 1
    /\ UNCHANGED <<cache_file, cache, unknown_ids, idx, retrieve_calls, resolve_pc>>
    /\ UNCHANGED <<renderVars, searchVars, viewVars>>

\* the cache is loaded and holds every identifier asked for: it is returned as it is
ResolveKnown ==
    /\ resolve_pc = "idle"
    /\ resolve_calls < MaxCalls
    /\ \E ids \in IdLists \ {<<>>} : \E loaded \in LoadCache :
          /\ UnknownIds(ids, loaded) = <<>>
          /\ cache' = loaded
          /\ unknown_ids' = <<>>
    /\ resolve_calls' = resolve_calls + 1
    /\ UNCHANGED <<cache_file, idx, retrieve_calls, resolve_pc>>
    /\ UNCHANGED <<renderVars, searchVars, viewVars>>

\* the cache is loaded and some identifier is not in it: the loop starts
ResolveUnknown ==
    /\ resolve_pc = "idle"
    /\ resolve_calls < MaxCalls
    /\ \E ids \in IdLists \ {<<>>} : \E loaded \in LoadCache :
          /\ UnknownIds(ids, loaded) # <<>>
          /\ cache' = loaded
          /\ unknown_ids' = UnknownIds(ids, loaded)
    /\ idx' = 1
    /\ resolve_calls' = resolve_calls + 1
    /\ resolve_pc' = "retrieving"
    /\ UNCHANGED <<cache_file, retrieve_calls>>
    /\ UNCHANGED <<renderVars, searchVars, viewVars>>

\* one iteration: notion.pages.retrieve is called and the title, or "Unknown Ref"
\* when the try block raised, goes in the cache
RetrievePage ==
    /\ resolve_pc = "retrieving"
    /\ idx <= Len(unknown_ids)
    /\ \E title \in Titles : cache' = DictSet(cache, unknown_ids[idx], title)
    /\ retrieve_calls' = [retrieve_calls EXCEPT ![unknown_ids[idx]] = @ + 1]
    /\ idx' = idx + 1
    /\ UNCHANGED <<cache_file, unknown_ids, resolve_calls, resolve_pc>>
    /\ UNCHANGED <<renderVars, searchVars, viewVars>>

\* save_cache writes the file
SaveCacheDone ==
    /\ resolve_pc = "retrieving"
    /\ idx > Len(unknown_ids)
    /\ cache_file' = cache
    /\ resolve_pc' = "idle"
    /\ UNCHANGED <<cache, unknown_ids, idx, retrieve_calls, resolve_calls>>
    /\ UNCHANGED <<renderVars, searchVars, viewVars>>

\* save_cache fails and prints the error: the file stays as it was
SaveCacheFailed ==
    /\ resolve_pc = "retrieving"
    /\ idx > Len(unknown_ids)
    /\ resolve_pc' = "idle"
    /\ UNCHANGED <<cache_file, cache, unknown_ids, idx, retrieve_calls, resolve_calls>>
    /\ UNCHANGED <<renderVars, searchVars, viewVars>>

NextCache ==
    \/ ResolveNothing \/ ResolveKnown \/ ResolveUnknown
    \/ RetrievePage \/ SaveCacheDone \/ SaveCacheFailed

SpecCache == InitCache /\ [][NextCache]_vars

----------------------------------------------------------------------------
(* C12: one retrieval per unresolved identifier.                           *)

\* C12: over any sequence of calls of resolve_page_titles, pages.retrieve is called
\* only for identifiers absent from the cache and at most once per identifier in
\* total, identifiers repeated in the requested list and identifiers whose
\* retrieval failed included.
C12_RetrievedOncePerIdentifier ==
    /\ \A p \in PageIds : retrieve_calls[p] <= 1
    /\ (resolve_pc = "retrieving" /\ idx <= Len(unknown_ids)) =>
           ~HasKey(cache, unknown_ids[idx])

----------------------------------------------------------------------------
(* The view state of the page script.  Streamlit runs the callback of the  *)
(* widget the user touched and then the whole script; an action is one     *)
(* such interaction.  total_entries is len(filtered_data) of the last run: *)
(* what the filters select depends on the entries, so an interaction that  *)
(* changes a filter or the query may give any size.                        *)

\* largest of the small sizes of the filtered list
MaxEntries == 3
\* largest shuffle seed followed
MaxSeed == 1

\* the sizes of the filtered list: the small ones, and one that needs Load More
Totals == (0..MaxEntries) \cup {PageSize + 1}

\* the texts of the search box
SearchTexts == {<<>>, <<"a">>}

Min(a, b) == IF a <= b THEN a ELSE b

Max(a, b) == IF a >= b THEN a ELSE b

\* ClampIndex without the upper limit
ClampIndexNoUpper(i, total) == Max(0, i)

\* max(0, min(focused_index, total_entries - 1))
ClampIndex(i, total) == Max(0, Min(i, total - 1))

\* Python's a % n for n > 0: the result is in 0..n-1 also for a negative a
PyMod(a, n) == ((a % n) + n) % n

\* current_idx of a run that shows no entry in the focused mode
NoEntry == -1

\* the run of the script after the callback left focused_index = fi and
\* visible_count = vc: st.stop() on an empty list, the clamp in focused mode
Rerun(fi, vc, total, mode, event) ==
    /\ total_entries' = total
    /\ focused_mode' = mode
    /\ visible_count' = vc
    /\ focused_index' = IF total > 0 /\ mode THEN ClampIndex(fi, total) ELSE fi
    /\ current_idx' = IF total > 0 /\ mode THEN ClampIndex(fi, total) ELSE NoEntry
    /\ last_event' = event

\* the state after the first run of the script
InitView ==
    /\ RenderIdle
    /\ SearchIdle
    /\ CacheIdle
    /\ focused_index = 0
    /\ visible_count = PageSize
    /\ total_entries \in Totals
    /\ focused_mode = FALSE
    /\ shuffle_enabled = FALSE
    /\ shuffle_seed = 0
    /\ current_idx = -1
    /\ last_event = "none"

searchRest == <<body, title_text, in_body, in_title, match_search, search_pc>>

\* the widgets with on_change = reset_view that change what is selected: a section
\* checkbox, the reference multiselect, the highlighted-only toggle
ChangeFilter ==
    /\ \E event \in {"section", "reference", "highlight"} : \E total \in Totals :
          Rerun(0, PageSize, total, focused_mode, event)
    /\ UNCHANGED <<shuffle_enabled, shuffle_seed, search_query>>
    /\ UNCHANGED <<renderVars, searchRest, cacheVars>>

\* Select All and Clear All: the checkboxes are set and reset_view() is called in
\* the script, before the list is built
SetAllSections ==
    /\ \E event \in {"select_all", "clear_all"} : \E total \in Totals :
          Rerun(0, PageSize, total, focused_mode, event)
    /\ UNCHANGED <<shuffle_enabled, shuffle_seed, search_query>>
    /\ UNCHANGED <<renderVars, searchRest, cacheVars>>

\* the entry type pills, drawn when the list before the type filter is not empty
ChangeEntryTypes ==
    /\ total_entries > 0
    /\ \E total \in Totals \ {0} : Rerun(0, PageSize, total, focused_mode, "entry_type")
    /\ UNCHANGED <<shuffle_enabled, shuffle_seed, search_query>>
    /\ UNCHANGED <<renderVars, searchRest, cacheVars>>

\* the Shuffle Order toggle, on_change = reset_view
ToggleShuffle ==
    /\ shuffle_enabled' = ~shuffle_enabled
    /\ Rerun(0, PageSize, total_entries, focused_mode, "shuffle")
    /\ UNCHANGED <<shuffle_seed, search_query>>
    /\ UNCHANGED <<renderVars, searchRest, cacheVars>>

\* the Reshuffle button: shuffle_seed += 1 and reset_view() in the script
Reshuffle ==
    /\ shuffle_enabled
    /\ shuffle_seed < MaxSeed
    /\ shuffle_seed' = shuffle_seed + 1
    /\ Rerun(0, PageSize, total_entries, focused_mode, "reshuffle")
    /\ UNCHANGED <<shuffle_enabled, search_query>>
    /\ UNCHANGED <<renderVars, searchRest, cacheVars>>

\* typing in the search box: the text input has no callback
EditSearch ==
    /\ \E q \in SearchTexts \ {search_query} : search_query' = q
    /\ \E total \in Totals : Rerun(focused_index, visible_count, total, focused_mode, "search")
    /\ UNCHANGED <<shuffle_enabled, shuffle_seed>>
    /\ UNCHANGED <<renderVars, searchRest, cacheVars>>

\* the clear button of the search box, on_click = clear_search
ClearSearch ==
    /\ search_query' = <<>>
    /\ \E total \in (IF search_query = <<>> THEN {total_entries} ELSE Totals) :
          Rerun(0, PageSize, total, focused_mode, "clear_search")
    /\ UNCHANGED <<shuffle_enabled, shuffle_seed>>
    /\ UNCHANGED <<renderVars, searchRest, cacheVars>>

\* the Focused Mode toggle
ToggleFocusedMode ==
    /\ Rerun(focused_index, visible_count, total_entries, ~focused_mode, "focused_mode")
    /\ UNCHANGED <<shuffle_enabled, shuffle_seed, search_query>>
    /\ UNCHANGED <<renderVars, searchRest, cacheVars>>

\* the column selector
SelectColumns ==
    /\ Rerun(focused_index, visible_count, total_entries, focused_mode, "columns")
    /\ UNCHANGED <<shuffle_enabled, shuffle_seed, search_query>>
    /\ UNCHANGED <<renderVars, searchRest, cacheVars>>

\* Load More Entries, drawn in the list mode while entries are hidden,
\* on_click = load_more_entries
LoadMore ==
    /\ ~focused_mode
    /\ total_entries > visible_count
    /\ Rerun(focused_index, visible_count + PageSize, total_entries, focused_mode, "load_more")
    /\ UNCHANGED <<shuffle_enabled, shuffle_seed, search_query>>
    /\ UNCHANGED <<renderVars, searchRest, cacheVars>>

\* Back to Top, drawn in the list mode: scroll_to_top is set by the callback and
\* cleared again by the run that follows
BackToTop ==
    /\ ~focused_mode
    /\ total_entries > 0
    /\ Rerun(focused_index, visible_count, total_entries, focused_mode, "back_to_top")
    /\ UNCHANGED <<shuffle_enabled, shuffle_seed, search_query>>
    /\ UNCHANGED <<renderVars, searchRest, cacheVars>>

\* Previous, drawn in the focused mode: the index is set from current_idx of this
\* run, then st.rerun()
ClickPrevious ==
    /\ focused_mode
    /\ total_entries > 0
    /\ Rerun(PyMod(ClampIndex(focused_index, total_entries) - 1, total_entries),
             visible_count, total_entries, focused_mode, "previous")
    /\ UNCHANGED <<shuffle_enabled, shuffle_seed, search_query>>
    /\ UNCHANGED <<renderVars, searchRest, cacheVars>>

\* Next, drawn in the focused mode
ClickNext ==
    /\ focused_mode
    /\ total_entries > 0
    /\ Rerun(PyMod(ClampIndex(focused_index, total_entries) + 1, total_entries),
             visible_count, total_entries, focused_mode, "next")
    /\ UNCHANGED <<shuffle_enabled, shuffle_seed, search_query>>
    /\ UNCHANGED <<renderVars, searchRest, cacheVars>>

NextView ==
    \/ ChangeFilter \/ SetAllSections \/ ChangeEntryTypes \/ ToggleShuffle \/ Reshuffle
    \/ EditSearch \/ ClearSearch
    \/ ToggleFocusedMode \/ SelectColumns \/ LoadMore \/ BackToTop
    \/ ClickPrevious \/ ClickNext

SpecView == InitView /\ [][NextView]_vars

----------------------------------------------------------------------------
(* C13: the index of the entry shown in the focused mode.                  *)

\* C13: in the focused mode with at least one entry, whatever filter changes,
\* Previous and Next clicks and view resets came before, the index that picks the
\* entry shown is focused_index and lies in 0..total_entries - 1; Next moves it up
\* by one and from the last entry to the first, Previous moves it down by one and
\* from the first entry to the last.
C13_FocusedIndexInRange ==
    /\ []((focused_mode /\ total_entries >= 1) =>
              /\ current_idx = focused_index
              /\ 0 <= current_idx
              /\ current_idx <= total_entries - 1)
    /\ [][last_event' = "next" =>
              /\ total_entries' = total_entries
              /\ current_idx' = IF current_idx = total_entries - 1 THEN 0
                                ELSE current_idx + 1]_vars
    /\ [][last_event' = "previous" =>
              /\ total_entries' = total_entries
              /\ current_idx' = IF current_idx = 0 THEN total_entries - 1
                                ELSE current_idx - 1]_vars

\* Next has just brought the index from the last entry back to the first, in a list
\* the search box had made shorter
C13_Witness ==
    /\ focused_mode
    /\ last_event = "next"
    /\ search_query # <<>>
    /\ total_entries = 3
    /\ current_idx = 0
    /\ focused_index = 0

----------------------------------------------------------------------------
(* C14: which controls reset the view.                                     *)

\* the interactions that change the set or the order of the filtered entries
FilterEvents ==
    {"section", "select_all", "clear_all", "reference", "highlight", "entry_type",
     "shuffle", "reshuffle", "search", "clear_search"}

\* C14: after every interaction that changes the set or the order of the filtered
\* entries (section checkbox, Select All, Clear All, reference selection,
\* highlighted-only toggle, entry type pills, shuffle toggle, Reshuffle, editing or
\* clearing the search query) the render starts with focused_index = 0 and
\* visible_count = 50.
C14_FilterChangeResetsView ==
    last_event \in FilterEvents => (focused_index = 0 /\ visible_count = PageSize)

====
